---- MODULE Spec2Model ----
(***************************************************************************)
(* Model of the Airlock Gateway REST client library                        *)
(* (airlock_gateway_rest_api_lib.py, denyrules.py) and of the              *)
(* administrative scripts built on it (examples/*.py).                     *)
(*                                                                         *)
(* The gateway is the environment: every request is answered with a        *)
(* status code and a body chosen nondeterministically.  A library function *)
(* is an operator from the answers it receives to a result record          *)
(*   reqs : the requests it sent, in order, each with the answer's status, *)
(*          the expected codes it was checked against and whether the      *)
(*          function went on to read the body                              *)
(*   out  : "ret" (returned), "rest_error" (AirlockGatewayRestError),      *)
(*          "error" (any other Python exception), "exit" (sys.exit)        *)
(*   code : the status code carried by AirlockGatewayRestError             *)
(*   val  : the returned value, cnt : its length when it is a list         *)
(***************************************************************************)
EXTENDS Integers, Sequences, FiniteSets, TLC

\* Largest number of entries in the "data" list of a response body.
MaxData == 2

\* The largest number of rules in a deny rule group that a script run meets.
MaxRules == 1

\* Status codes the gateway may answer with.
StatusCodes == {200, 201, 204, 400, 404, 500}

\* A body is not JSON at all, a JSON object without "data", or a JSON
\* object whose "data" holds cnt entries (a dict counts as kind "data").
Bodies ==
  [kind : {"nojson", "nodata"}, cnt : {0}] \cup
  [kind : {"data"}, cnt : 0..MaxData]

Responses == [st : StatusCodes, body : Bodies]

Range(s) == {s[i] : i \in DOMAIN s}

----------------------------------------------------------------------------
(* exp_code: None, an int, or a list of ints. *)

ExpNone == [kind |-> "None", codes |-> <<>>]
ExpInt(c) == [kind |-> "int", codes |-> <<c>>]
ExpList(s) == [kind |-> "list", codes |-> s]

\* Python truth value of an exp_code argument.
Truthy(exp_code) ==
  CASE exp_code.kind = "None" -> FALSE
    [] exp_code.kind = "int" -> exp_code.codes[1] # 0
    [] exp_code.kind = "list" -> Len(exp_code.codes) > 0

\* The codes a request is checked against; empty when it is not checked.
ExpSet(exp_code) == IF Truthy(exp_code) THEN Range(exp_code.codes) ELSE {}

\* Variant: only the first code of a list is compared.
res_expect_handle_first(res, exp_code) ==
  IF Truthy(exp_code)
    THEN IF res.st # exp_code.codes[1] THEN "raise" ELSE "ok"
    ELSE "ok"

\* _res_expect_handle: "raise" when AirlockGatewayRestError is raised.
res_expect_handle(res, exp_code) ==
  IF Truthy(exp_code)
    THEN LET lst == IF exp_code.kind # "list"
                      THEN <<exp_code.codes[1]>> ELSE exp_code.codes
         IN  IF res.st \notin Range(lst) THEN "raise" ELSE "ok"
    ELSE "ok"

Request(method, path, res, exp_code) ==
  [method |-> method, path |-> path, st |-> res.st,
   expected |-> ExpSet(exp_code), bodyread |-> FALSE]

req(method, path, exp_code, res) ==
  LET h == res_expect_handle(res, exp_code)
  IN  [reqs |-> <<Request(method, path, res, exp_code)>>,
       out  |-> IF h = "raise" THEN "rest_error" ELSE "ret",
       code |-> IF h = "raise" THEN res.st ELSE 0,
       val  |-> "Response", cnt |-> 0]

req_raw(method, path, exp_code, res) ==
  LET h == res_expect_handle(res, exp_code)
  IN  [reqs |-> <<Request(method, path, res, exp_code)>>,
       out  |-> IF h = "raise" THEN "rest_error" ELSE "ret",
       code |-> IF h = "raise" THEN res.st ELSE 0,
       val  |-> "Response", cnt |-> 0]

post(path, exp_code, res) == req("POST", path, exp_code, res)
patch(path, exp_code, res) == req("PATCH", path, exp_code, res)
put(path, exp_code, res) == req("PUT", path, exp_code, res)
delete(path, exp_code, res) == req("DELETE", path, exp_code, res)
get(path, exp_code, res) == req("GET", path, exp_code, res)

----------------------------------------------------------------------------
(* Helpers on result records. *)

\* The function returned val (of n entries) after the requests of o.
Ret(o, val, n) ==
  [reqs |-> o.reqs, out |-> "ret", code |-> 0, val |-> val, cnt |-> n]

\* A Python exception other than AirlockGatewayRestError after o.
Fail(o) ==
  [reqs |-> o.reqs, out |-> "error", code |-> 0, val |-> "None", cnt |-> 0]

\* The body of the last response of o was read (res.json(), res.content).
Used(o) ==
  LET k == Len(o.reqs)
      q == o.reqs[k]
  IN  [reqs |-> [o.reqs EXCEPT ![k] = [method |-> q.method, path |-> q.path,
                                       st |-> q.st, expected |-> q.expected,
                                       bodyread |-> TRUE]],
       out |-> o.out, code |-> o.code, val |-> o.val, cnt |-> o.cnt]

\* o2 runs after o1 returned.
Then(o1, o2) ==
  IF o1.out # "ret" THEN o1
  ELSE [reqs |-> o1.reqs \o o2.reqs, out |-> o2.out, code |-> o2.code,
        val |-> o2.val, cnt |-> o2.cnt]

\* A result that sent nothing.
Pure(out, val) ==
  [reqs |-> <<>>, out |-> out, code |-> 0, val |-> val, cnt |-> 0]

\* res.json()["data"]: raises unless the body is JSON with a "data" key.
JsonData(o, res, val) ==
  IF o.out # "ret" THEN o
  ELSE IF res.body.kind = "data" THEN Ret(Used(o), val, res.body.cnt)
  ELSE Fail(Used(o))

\* res.json().get("data"): None when the JSON body has no "data" key.
JsonGetData(o, res, val) ==
  IF o.out # "ret" THEN o
  ELSE IF res.body.kind = "data" THEN Ret(Used(o), val, res.body.cnt)
  ELSE IF res.body.kind = "nodata" THEN Ret(Used(o), "None", 0)
  ELSE Fail(Used(o))

----------------------------------------------------------------------------
(* Library functions of airlock_gateway_rest_api_lib.py.  Each takes the   *)
(* answers of the gateway to the requests it may send, in order.           *)

\* The version is present when the node status carries at least one entry.
get_version(res) ==
  LET o == get("/system/status/node", ExpInt(200), res)
  IN  IF o.out # "ret" THEN o
      ELSE IF res.body.kind # "data" THEN Fail(Used(o))
      ELSE Ret(Used(o), IF res.body.cnt > 0 THEN "version" ELSE "None", 0)

create_session(r1, r2) ==
  LET Session(v) == IF v.out # "ret" THEN v ELSE Ret(v, "GatewaySession", 0)
      Created(o) ==
        IF o.out # "ret" THEN o
        ELSE IF r1.st = 200 THEN Session(Then(o, get_version(r2)))
        ELSE Ret(o, "None", 0)
  IN  Created(post("/session/create", ExpList(<<200, 404>>), r1))

terminate_session(res) ==
  LET o == post("/session/terminate", ExpInt(200), res)
  IN  IF o.out # "ret" THEN o ELSE Ret(o, "None", 0)

\* Variant: the configuration counts as valid whatever the messages are.
validate_always(res) ==
  LET Messages(o) ==
        IF o.out # "ret" THEN o
        ELSE IF res.body.kind # "data" THEN Fail(Used(o))
        ELSE Ret(Used(o), "True", 0)
  IN  Messages(get("/configuration/validator-messages", ExpInt(200), res))

\* val is the first component of the returned pair, cnt the number of
\* messages.
validate(res) ==
  LET Messages(o) ==
        IF o.out # "ret" THEN o
        ELSE IF res.body.kind # "data" THEN Fail(Used(o))
        ELSE IF res.body.cnt > 0 THEN Ret(Used(o), "False", res.body.cnt)
        ELSE Ret(Used(o), "True", 0)
  IN  Messages(get("/configuration/validator-messages", ExpInt(200), res))

activate(r1, r2) ==
  LET Activated(o) == IF o.out # "ret" THEN o ELSE Ret(o, "True", 0)
      Validated(v) ==
        IF v.out # "ret" THEN v
        ELSE IF v.val # "True" THEN Ret(v, "False", 0)
        ELSE Activated(Then(v, post("/configuration/configurations/activate",
                                    ExpInt(200), r2)))
  IN  Validated(validate(r1))

save_config(res) ==
  LET Saved(o) ==
        IF o.out # "ret" THEN o
        ELSE IF res.st = 400 THEN Ret(o, "None", 0)
        ELSE JsonData(o, res, "id")
  IN  Saved(post("/configuration/configurations/save",
                 ExpList(<<200, 400>>), res))

update_license(r1, r2) ==
  LET o == get("/configuration/license", ExpNone, r1)
  IN  IF o.out # "ret" THEN o
      ELSE IF r1.body.kind = "nojson" THEN Fail(Used(o))
      ELSE LET p == Then(Used(o), patch("/configuration/license",
                                        ExpInt(200), r2))
           IN  IF p.out # "ret" THEN p ELSE Ret(p, "None", 0)

get_all_mappings(res) ==
  JsonGetData(get("/configuration/mappings", ExpInt(200), res), res, "list")

get_mapping_by_id(res) ==
  LET o == get("/configuration/mappings/{id}", ExpList(<<200, 404>>), res)
  IN  IF o.out # "ret" THEN o
      ELSE IF res.st = 200 THEN JsonGetData(o, res, "dict")
      ELSE Ret(o, "None", 0)

get_mapping_by_name(res) ==
  LET o == JsonGetData(get("/configuration/mappings?filter=name",
                           ExpInt(200), res), res, "list")
  IN  IF o.out # "ret" THEN o
      ELSE IF o.val = "None" THEN Fail(o)
      ELSE IF o.cnt = 1 THEN Ret(o, "dict", 0)
      ELSE Ret(o, "None", 0)

\* A mapping (a non-empty dict) is truthy.
get_mapping_id(res) ==
  LET Id(m) ==
        IF m.out # "ret" THEN m
        ELSE IF m.val = "dict" THEN Ret(m, "id", 0)
        ELSE Ret(m, "None", 0)
  IN  Id(get_mapping_by_name(res))

update_mapping(res) ==
  LET o == patch("/configuration/mappings/{id}", ExpList(<<200, 404>>), res)
  IN  IF o.out # "ret" THEN o
      ELSE Ret(o, IF res.st = 200 THEN "True" ELSE "False", 0)

\* Variant: the delete functions compare the status with 200.
update_or_delete_by_id_200(fn, res) ==
  LET Status(o, ok) ==
        IF o.out # "ret" THEN o
        ELSE Ret(o, IF res.st = ok THEN "True" ELSE "False", 0)
  IN  CASE fn = "update_virtual_host_by_id" ->
             Status(patch("/configuration/virtual-hosts/{id}",
                          ExpList(<<200, 404>>), res), 200)
        [] fn = "delete_virtual_host_by_id" ->
             Status(delete("/configuration/virtual-hosts/{id}",
                           ExpList(<<204, 404>>), res), 200)
        [] fn = "delete_mapping_by_id" ->
             Status(delete("/configuration/mappings/{id}",
                           ExpList(<<204, 404>>), res), 200)
        [] fn = "update_backend_group_by_id" ->
             Status(patch("/configuration/back-end-groups/{id}",
                          ExpList(<<200, 404>>), res), 200)
        [] fn = "delete_backend_group_by_id" ->
             Status(delete("/configuration/back-end-groups/{id}",
                           ExpList(<<204, 404>>), res), 200)

\* update_virtual_host_by_id, delete_virtual_host_by_id,
\* delete_mapping_by_id, update_backend_group_by_id and
\* delete_backend_group_by_id: one request, whose status is the result.
update_or_delete_by_id(fn, res) ==
  LET Status(o, ok) ==
        IF o.out # "ret" THEN o
        ELSE Ret(o, IF res.st = ok THEN "True" ELSE "False", 0)
  IN  CASE fn = "update_virtual_host_by_id" ->
             Status(patch("/configuration/virtual-hosts/{id}",
                          ExpList(<<200, 404>>), res), 200)
        [] fn = "delete_virtual_host_by_id" ->
             Status(delete("/configuration/virtual-hosts/{id}",
                           ExpList(<<204, 404>>), res), 204)
        [] fn = "delete_mapping_by_id" ->
             Status(delete("/configuration/mappings/{id}",
                           ExpList(<<204, 404>>), res), 204)
        [] fn = "update_backend_group_by_id" ->
             Status(patch("/configuration/back-end-groups/{id}",
                          ExpList(<<200, 404>>), res), 200)
        [] fn = "delete_backend_group_by_id" ->
             Status(delete("/configuration/back-end-groups/{id}",
                           ExpList(<<204, 404>>), res), 204)

\* Variant: the status of the answer is not checked.
load_active_config_unchecked(res) ==
  LET o == post("/configuration/configurations/load-active", ExpNone, res)
  IN  IF o.out # "ret" THEN o ELSE Ret(o, "None", 0)

load_active_config(res) ==
  LET o == post("/configuration/configurations/load-active",
                ExpInt(204), res)
  IN  IF o.out # "ret" THEN o ELSE Ret(o, "None", 0)

get_mapping_deny_rule_group(res) ==
  JsonGetData(get("/configuration/mappings/{id}/deny-rule-groups/{name}",
                  ExpList(<<200, 404>>), res), res, "dict")

update_mapping_deny_rule_group(res) ==
  LET o == patch("/configuration/mappings/{id}/deny-rule-groups/{name}",
                 ExpList(<<200, 404>>), res)
  IN  IF o.out # "ret" THEN o
      ELSE Ret(o, IF res.st = 200 THEN "True" ELSE "False", 0)

get_deny_rule_groups(res) ==
  JsonGetData(get("/configuration/deny-rule-groups", ExpInt(200), res),
              res, "list")

get_deny_rule_group(res) ==
  JsonGetData(get("/configuration/deny-rule-groups/{name}",
                  ExpList(<<200, 404>>), res), res, "dict")

Min(a, b) == IF a < b THEN a ELSE b

\* pattern, label: whether the argument is given; k: how many mapping names
\* the regular expression matches.  set() of a non-empty list of dicts
\* raises TypeError (unhashable), and so does set + set.
select_mappings(pattern, label, k, r1, r2) ==
  LET ByLabel(r) ==
        JsonGetData(get("/configuration/mappings?filter=label",
                        ExpInt(200), r), r, "list")
      ByPattern(all) ==
        IF all.out # "ret" THEN all
        ELSE IF all.val = "None" THEN Fail(all)
        ELSE Ret(all, "list", Min(k, all.cnt))
      Both(byPattern) ==
        IF byPattern.out # "ret" THEN byPattern
        ELSE IF byPattern.cnt > 0 THEN Fail(byPattern)
        ELSE Fail(Then(byPattern, ByLabel(r2)))
  IN  IF ~pattern /\ ~label THEN get_all_mappings(r1)
      ELSE IF pattern /\ label THEN Both(ByPattern(get_all_mappings(r1)))
      ELSE IF label THEN ByLabel(r1)
      ELSE ByPattern(get_all_mappings(r1))

----------------------------------------------------------------------------
(* Functions of denyrules.py.  Those whose name the library also uses      *)
(* carry the prefix dr_.                                                   *)

dr_update_mapping_deny_rule_group(res) ==
  LET o == patch("/configuration/mappings/{id}/deny-rule-groups/{name}",
                 ExpList(<<200, 404>>), res)
  IN  IF o.out # "ret" THEN o
      ELSE Ret(o, IF res.st = 200 THEN "True" ELSE "False", 0)

dr_update_mapping_deny_rule(res) ==
  LET o == patch("/configuration/mappings/{id}/deny-rules/{name}",
                 ExpList(<<200, 404>>), res)
  IN  IF o.out # "ret" THEN o
      ELSE Ret(o, IF res.st = 200 THEN "True" ELSE "False", 0)

dr_get_deny_rule_groups(res) ==
  JsonGetData(get("/configuration/deny-rule-groups", ExpInt(200), res),
              res, "list")

dr_get_deny_rule_group(res) ==
  JsonGetData(get("/configuration/deny-rule-groups/{name}",
                  ExpList(<<200, 404>>), res), res, "dict")

update_mapping_custom_deny_rule_group(res) ==
  LET o == patch("/configuration/mappings/{id}/custom-deny-rule-groups/{id}",
                 ExpList(<<200, 404>>), res)
  IN  IF o.out # "ret" THEN o
      ELSE Ret(o, IF res.st = 200 THEN "True" ELSE "False", 0)

update_mapping_custom_deny_rule(res) ==
  LET o == patch("/configuration/mappings/{id}/custom-deny-rules/{id}",
                 ExpList(<<200, 404>>), res)
  IN  IF o.out # "ret" THEN o
      ELSE Ret(o, IF res.st = 200 THEN "True" ELSE "False", 0)

get_custom_deny_rule_groups(res) ==
  JsonGetData(get("/configuration/custom-deny-rule-groups", ExpInt(200), res),
              res, "list")

get_custom_deny_rule_group(res) ==
  JsonGetData(get("/configuration/custom-deny-rule-groups/{id}",
                  ExpList(<<200, 404>>), res), res, "dict")

toggle_built_in_deny_rule_logonly(res) == dr_update_mapping_deny_rule(res)

toggle_custom_deny_rule_logonly(res) == update_mapping_custom_deny_rule(res)

\* "res = toggle(...) and res" for the rules k..d of the group, given the
\* result acc so far: every rule is tried, the value stays False once False.
\* Variant: "res = res and toggle(...)", no rule is tried once the value is
\* False.
RECURSIVE toggle_builtin_rules_lazy(_, _, _, _)
toggle_builtin_rules_lazy(acc, rs, k, d) ==
  IF acc.out # "ret" \/ k > d \/ acc.val = "False" THEN acc
  ELSE LET t == Then(acc, toggle_built_in_deny_rule_logonly(rs[k]))
       IN  toggle_builtin_rules_lazy(
             IF t.out # "ret" THEN t
             ELSE Ret(t, IF t.val = "True" THEN acc.val ELSE "False", 0),
             rs, k + 1, d)

RECURSIVE toggle_builtin_rules(_, _, _, _)
toggle_builtin_rules(acc, rs, k, d) ==
  IF acc.out # "ret" \/ k > d THEN acc
  ELSE LET t == Then(acc, toggle_built_in_deny_rule_logonly(rs[k]))
       IN  toggle_builtin_rules(
             IF t.out # "ret" THEN t
             ELSE Ret(t, IF t.val = "True" THEN acc.val ELSE "False", 0),
             rs, k + 1, d)

RECURSIVE toggle_custom_rules(_, _, _, _)
toggle_custom_rules(acc, rs, k, d) ==
  IF acc.out # "ret" \/ k > d THEN acc
  ELSE LET t == Then(acc, toggle_custom_deny_rule_logonly(rs[k]))
       IN  toggle_custom_rules(
             IF t.out # "ret" THEN t
             ELSE Ret(t, IF t.val = "True" THEN acc.val ELSE "False", 0),
             rs, k + 1, d)

\* r1 answers the group update, r2 the group query (its cnt is the number of
\* distinct rules of the group), rs the rule updates.
toggle_builtin_deny_rule_group_logonly(r1, r2, rs) ==
  LET u == dr_update_mapping_deny_rule_group(r1)
  IN  IF u.out # "ret" \/ u.val # "True" THEN u
      ELSE LET g == Then(u, dr_get_deny_rule_group(r2))
           IN  IF g.out # "ret" THEN g
               ELSE IF g.val = "None" THEN Fail(g)
               ELSE toggle_builtin_rules(Ret(g, "True", 0), rs, 1, g.cnt)

toggle_custom_deny_rule_group_logonly(r1, r2, rs) ==
  LET u == update_mapping_custom_deny_rule_group(r1)
  IN  IF u.out # "ret" \/ u.val # "True" THEN u
      ELSE LET g == Then(u, get_custom_deny_rule_group(r2))
           IN  IF g.out # "ret" THEN g
               ELSE IF g.val = "None" THEN Fail(g)
               ELSE toggle_custom_rules(Ret(g, "True", 0), rs, 1, g.cnt)

----------------------------------------------------------------------------
(* State. *)

VARIABLES
  call,      \* library runs: the last library call, its inputs and its result
             \* (method: the HTTP method of a request helper, or the
             \* arguments that a library function was given)
  script,    \* script runs: the script being run
  args,      \* its command line options
  pc,        \* its position
  session,   \* its SESSION / gw_session variable: "unset", "None", "open"
  log,       \* the requests sent so far, in order (see Record)
  status,    \* "running", or how the process ended
  sel        \* its selections: mappings, groups, custom groups, loop indexes

vars == <<call, script, args, pc, session, log, status, sel>>
scriptVars == <<script, args, pc, session, log, status, sel>>

NoCall == [fn |-> "none", method |-> "", exp |-> ExpNone, rs |-> <<>>,
           res |-> Pure("ret", "None")]

\* nmap, ngrp, ncgrp: the mappings, groups and custom groups selected;
\* mi, gi: the loop indexes; act: what al.activate returned; saveans: the
\* answer to the save prompt of utils.save_config; found, group_id: the
\* target_group and group_id of add_custom_dr.
NoSel == [nmap |-> 0, ngrp |-> 0, ncgrp |-> 0, mi |-> 0, gi |-> 0,
          act |-> "unset", saveans |-> "unset", deleted |-> FALSE,
          found |-> FALSE, group_id |-> "unset"]
NoArgs == [command |-> "", activate |-> FALSE, assumeyes |-> FALSE,
           path_pattern |-> FALSE]

----------------------------------------------------------------------------
(* The answers of the gateway that a run draws from. *)

\* Answers to requests whose body the caller does not read.
StatusOnly ==
  {[st |-> c, body |-> [kind |-> "nojson", cnt |-> 0]] : c \in StatusCodes}

\* Stands for the answer to a request that is not sent.
NoAnswer == [st |-> 0, body |-> [kind |-> "nojson", cnt |-> 0]]

\* The answers to a request whose body is read only if the status is in read.
Resp(read) == {r \in Responses : r.st \notin read => r.body.kind = "nojson"}

\* The answers to a request that is sent only if sent holds.
IfSent(sent, S) == IF sent THEN S ELSE {NoAnswer}

\* o sent at least n requests.
Sends(o, n) == Len(o.reqs) >= n

\* How many of the names that r lists a regular expression can match.
Matching(r) == 0..(IF r.body.kind = "data" THEN r.body.cnt ELSE 0)

\* The answers to the updates of the rules of the group that r answers with:
\* the updates after one that raised are not sent and have no answer.
RuleAnswers(r, custom) ==
  LET n == IF r.body.kind = "data" THEN r.body.cnt ELSE 0
      Toggle(a) == IF custom THEN toggle_custom_deny_rule_logonly(a)
                   ELSE toggle_built_in_deny_rule_logonly(a)
  IN  {rs \in [1..n -> StatusOnly \cup {NoAnswer}] :
         \A k \in 1..n :
           (rs[k] = NoAnswer) <=>
             \E j \in 1..(k - 1) : Toggle(rs[j]).out # "ret"}

----------------------------------------------------------------------------
(* Library runs: one call of a library function against the gateway. *)

Methods == {"GET", "POST", "PATCH", "PUT", "DELETE"}

\* The exp_code arguments tried: omitted, a code, and lists of codes.
ExpCodes ==
  {ExpNone, ExpInt(200), ExpInt(201), ExpInt(204), ExpList(<<>>),
   ExpList(<<200>>), ExpList(<<200, 404>>), ExpList(<<204, 404>>),
   ExpList(<<200, 400>>)}

\* The attributes of GatewaySession(host_name, ses, port), where port is
\* None or an int n.  "port if port"
\* takes None and 0 as false, "port != 443" compares the argument itself,
\* and the f-string formats it with str().
GatewaySession(host_name, port) ==
  LET digit == <<"0", "1", "2", "3", "4", "5", "6", "7", "8", "9">>
      decimal[n \in Nat] ==
        IF n < 10 THEN digit[n + 1]
        ELSE decimal[n \div 10] \o digit[(n % 10) + 1]
      str == IF port.none THEN "None" ELSE decimal[port.n]
  IN  [port |-> IF ~port.none /\ port.n # 0 THEN port.n ELSE 443,
       host |-> IF port.none \/ port.n # 443
                  THEN host_name \o ":" \o str ELSE host_name,
       host_name |-> host_name]

LibInit ==
  /\ call = NoCall
  /\ script = "none" /\ args = NoArgs /\ pc = "none" /\ session = "unset"
  /\ log = <<>> /\ status = "running" /\ sel = NoSel

Called(fn, m, exp_code, rs, res) ==
  /\ call.fn = "none"
  /\ call' = [fn |-> fn, method |-> m, exp |-> exp_code, rs |-> rs,
              res |-> res]
  /\ UNCHANGED scriptVars

Call_req ==
  \E m \in Methods, e \in ExpCodes, r \in Responses :
    Called("req", m, e, <<r>>, req(m, "/path", e, r))

Call_req_raw ==
  \E m \in Methods, e \in ExpCodes, r \in Responses :
    Called("req_raw", m, e, <<r>>, req_raw(m, "/path", e, r))

Call_get ==
  \E e \in ExpCodes, r \in Responses :
    Called("get", "GET", e, <<r>>, get("/path", e, r))

Call_post ==
  \E e \in ExpCodes, r \in Responses :
    Called("post", "POST", e, <<r>>, post("/path", e, r))

Call_patch ==
  \E e \in ExpCodes, r \in Responses :
    Called("patch", "PATCH", e, <<r>>, patch("/path", e, r))

Call_put ==
  \E e \in ExpCodes, r \in Responses :
    Called("put", "PUT", e, <<r>>, put("/path", e, r))

Call_delete ==
  \E e \in ExpCodes, r \in Responses :
    Called("delete", "DELETE", e, <<r>>, delete("/path", e, r))

Call_create_session ==
  \E r1, r2 \in Responses :
    Called("create_session", "", ExpNone, <<r1, r2>>, create_session(r1, r2))

Call_terminate_session ==
  \E r \in Responses :
    Called("terminate_session", "", ExpNone, <<r>>, terminate_session(r))

Call_validate ==
  \E r \in Responses : Called("validate", "", ExpNone, <<r>>, validate(r))

Call_activate ==
  \E r1, r2 \in Responses :
    Called("activate", "", ExpNone, <<r1, r2>>, activate(r1, r2))

Call_save_config ==
  \E r \in Responses :
    Called("save_config", "", ExpNone, <<r>>, save_config(r))

Call_update_license ==
  \E r1, r2 \in Responses :
    Called("update_license", "", ExpNone, <<r1, r2>>, update_license(r1, r2))

Call_load_active_config ==
  \E r \in Responses :
    Called("load_active_config", "", ExpNone, <<r>>, load_active_config(r))

Call_get_all_mappings ==
  \E r \in Responses :
    Called("get_all_mappings", "", ExpNone, <<r>>, get_all_mappings(r))

Call_get_mapping_by_id ==
  \E r \in Responses :
    Called("get_mapping_by_id", "", ExpNone, <<r>>, get_mapping_by_id(r))

Call_get_mapping_by_name ==
  \E r \in Responses :
    Called("get_mapping_by_name", "", ExpNone, <<r>>, get_mapping_by_name(r))

Call_update_mapping ==
  \E r \in Responses :
    Called("update_mapping", "", ExpNone, <<r>>, update_mapping(r))

Call_update_or_delete_by_id ==
  \E fn \in {"update_virtual_host_by_id", "delete_virtual_host_by_id",
             "delete_mapping_by_id", "update_backend_group_by_id",
             "delete_backend_group_by_id"}, r \in Responses :
    Called(fn, "", ExpNone, <<r>>, update_or_delete_by_id(fn, r))

\* k: how many mapping names the pattern matches.
Call_select_mappings ==
  \E pattern, label \in BOOLEAN, r1 \in Responses :
  \E k \in Matching(r1) :
  \E r2 \in IfSent(Sends(select_mappings(pattern, label, k, r1, NoAnswer), 2),
                   Responses) :
    Called("select_mappings",
           IF pattern /\ label THEN "pattern+label"
           ELSE IF pattern THEN "pattern"
           ELSE IF label THEN "label" ELSE "",
           ExpNone, <<r1, r2>>, select_mappings(pattern, label, k, r1, r2))

\* The getters of a deny rule group, of the library and of denyrules.py.
Call_get_deny_rule_group ==
  \E fn \in {"get_mapping_deny_rule_group", "get_deny_rule_group",
             "dr.get_deny_rule_group", "dr.get_custom_deny_rule_group"},
     r \in Responses :
    Called(fn, "", ExpNone, <<r>>,
           CASE fn = "get_mapping_deny_rule_group" ->
                  get_mapping_deny_rule_group(r)
             [] fn = "get_deny_rule_group" -> get_deny_rule_group(r)
             [] fn = "dr.get_deny_rule_group" -> dr_get_deny_rule_group(r)
             [] fn = "dr.get_custom_deny_rule_group" ->
                  get_custom_deny_rule_group(r))

Call_get_mapping_id ==
  \E r \in Responses :
    Called("get_mapping_id", "", ExpNone, <<r>>, get_mapping_id(r))

\* r1 answers the update of the group, r2 the query of the group, rs the
\* updates of its rules.
Call_toggle_deny_rule_group_logonly ==
  \E custom \in BOOLEAN, r1 \in StatusOnly :
  \E r2 \in IfSent(Sends(toggle_builtin_deny_rule_group_logonly(
                           r1, NoAnswer, <<>>), 2), Responses) :
  \E rs \in RuleAnswers(r2, custom) :
    Called(IF custom THEN "toggle_custom_deny_rule_group_logonly"
           ELSE "toggle_builtin_deny_rule_group_logonly",
           "", ExpNone, <<r1, r2>> \o rs,
           IF custom THEN toggle_custom_deny_rule_group_logonly(r1, r2, rs)
           ELSE toggle_builtin_deny_rule_group_logonly(r1, r2, rs))

\* A session is constructed and req sends a request with it; the request is
\* recorded with its uri.  The port argument is omitted (None), 443 or 8443.
Call_GatewaySession ==
  \E port \in {[none |-> TRUE, n |-> 0]}
                \cup {[none |-> FALSE, n |-> n] : n \in {443, 8443}},
     r \in StatusOnly :
  \E gw_session \in {GatewaySession("gateway", port)} :
    /\ call.fn = "none"
    /\ call' = [fn |-> "GatewaySession",
                method |-> IF port.none THEN "port=None" ELSE "port=int",
                exp |-> ExpNone, rs |-> <<r>>,
                res |-> req("GET", "https://" \o gw_session.host
                                     \o "/airlock/rest" \o "/path",
                            ExpNone, r),
                gw_session |-> gw_session]
    /\ UNCHANGED scriptVars

LibNext ==
  \/ Call_req \/ Call_req_raw \/ Call_get \/ Call_post \/ Call_patch
  \/ Call_put \/ Call_delete
  \/ Call_create_session \/ Call_terminate_session \/ Call_validate
  \/ Call_activate \/ Call_save_config \/ Call_update_license
  \/ Call_load_active_config \/ Call_get_all_mappings
  \/ Call_get_mapping_by_id \/ Call_get_mapping_by_name
  \/ Call_update_mapping
  \/ Call_select_mappings
  \/ Call_update_or_delete_by_id
  \/ Call_get_deny_rule_group
  \/ Call_get_mapping_id
  \/ Call_toggle_deny_rule_group_logonly
  \/ Call_GatewaySession

LibSpec == LibInit /\ [][LibNext]_vars

----------------------------------------------------------------------------
(* Claims about the library. *)

RequestHelpers == {"req", "get", "post", "patch", "put", "delete", "req_raw"}

\* C1: a request helper called with an expected status code, or with a list
\* of expected codes, sends exactly one request; it returns the response
\* when the status is among the expected codes and otherwise raises
\* AirlockGatewayRestError carrying that status.
C1_HelperChecksStatus ==
  (call.fn \in RequestHelpers /\ Truthy(call.exp)) =>
    /\ Len(call.res.reqs) = 1
    /\ call.res.reqs[1].method = call.method
    /\ call.res.reqs[1].st = call.rs[1].st
    /\ IF call.rs[1].st \in Range(call.exp.codes)
         THEN call.res.out = "ret" /\ call.res.val = "Response"
         ELSE call.res.out = "rest_error" /\ call.res.code = call.rs[1].st

\* C1 witness: a helper given the list [200, 404] was answered 500 and raised.
C1_Witness ==
  /\ call.fn \in RequestHelpers
  /\ call.exp = ExpList(<<200, 404>>)
  /\ call.rs[1].st = 500
  /\ call.res.out = "rest_error"

\* C1 witness, other side: a helper given [200, 404] was answered 404.
C1_WitnessReturns ==
  /\ call.fn \in RequestHelpers
  /\ call.exp = ExpList(<<200, 404>>)
  /\ call.rs[1].st = 404
  /\ call.res.out = "ret"

LibraryFunctions ==
  {"create_session", "terminate_session", "validate", "activate",
   "save_config", "update_license", "load_active_config",
   "get_all_mappings", "get_mapping_by_id", "get_mapping_by_name",
   "update_mapping"}

Sent(reqs, path) == \E k \in DOMAIN reqs : reqs[k].path = path

\* C2: a 404 answer never makes a library function raise
\* AirlockGatewayRestError; the function returns normally.
C2_NotFoundNeverRaises ==
  (call.fn \in LibraryFunctions /\ \E k \in DOMAIN call.res.reqs :
                                      call.res.reqs[k].st = 404) =>
    call.res.out = "ret"

\* The validation answer reports at least one ERROR message.
ReportsErrors(res) ==
  res.st = 200 /\ res.body.kind = "data" /\ res.body.cnt > 0

\* The validation answer reports no ERROR message.
ReportsValid(res) ==
  res.st = 200 /\ res.body.kind = "data" /\ res.body.cnt = 0

\* C3: activate sends the activation request only after the validation it
\* made itself reported no ERROR message; with at least one error it
\* returns False without sending the activation request; it returns True
\* only after the activation request was answered with 200.
C3_ActivateOnlyIfValid ==
  call.fn = "activate" =>
    LET reqs == call.res.reqs
        activation == "/configuration/configurations/activate"
    IN  /\ Sent(reqs, activation) =>
             /\ ReportsValid(call.rs[1])
             /\ Len(reqs) = 2
             /\ reqs[1].path = "/configuration/validator-messages"
             /\ reqs[2].path = activation
        /\ ReportsErrors(call.rs[1]) =>
             /\ call.res.out = "ret" /\ call.res.val = "False"
             /\ ~Sent(reqs, activation)
        /\ (call.res.out = "ret" /\ call.res.val = "True") =>
             /\ Sent(reqs, activation)
             /\ reqs[Len(reqs)].st = 200 /\ call.rs[2].st = 200

\* C3 witness: validation reported errors and activate returned False.
C3_Witness ==
  /\ call.fn = "activate" /\ ReportsErrors(call.rs[1])
  /\ call.res.val = "False" /\ Len(call.res.reqs) = 1

\* C3 witness, other side: activate returned True after a 200 activation.
C3_WitnessActivated ==
  /\ call.fn = "activate" /\ call.res.val = "True"
  /\ Len(call.res.reqs) = 2 /\ call.res.reqs[2].st = 200

\* C4: create_session returns the GatewaySession exactly when
\* /session/create was answered with 200 and returns None for every other
\* outcome of the session-start requests, instead of raising.
C4_CreateSessionNeverRaises ==
  call.fn = "create_session" =>
    /\ call.res.out = "ret"
    /\ call.res.val = "GatewaySession" <=> call.rs[1].st = 200
    /\ call.res.val = "None" <=> call.rs[1].st # 200

\* The codes the status check of a request has to let through: the codes
\* the call expects, or 200 when the call names none.
SuccessOrHandled(q) == IF q.expected = {} THEN {200} ELSE q.expected

\* C10: every request of a library function is status-checked: on a status
\* that is neither a success code nor a handled code the function raises
\* AirlockGatewayRestError before it reads the response body.
C10_EveryRequestChecked ==
  call.fn \in LibraryFunctions =>
    \A k \in DOMAIN call.res.reqs :
      LET q == call.res.reqs[k]
      IN  q.st \notin SuccessOrHandled(q) =>
            /\ call.res.out = "rest_error" /\ call.res.code = q.st
            /\ ~q.bodyread

----------------------------------------------------------------------------
(* Script runs: one run of an administrative script against the gateway.   *)
(* Signal handlers are not modelled; a run is the main function.           *)

Scripts ==
  {"add_custom_dr", "deny_rule_exceptions", "enable_deny_rule_group",
   "ip_list_relationships", "ip_list_relationships_8_2", "maintenance",
   "set_log_only"}

\* The command lines tried for each script.  assumeyes stands for the
\* option that skips the prompts (-y, or -f of maintenance.py).
ArgSets(s) ==
  CASE s = "add_custom_dr" ->
         [command : {""}, activate : BOOLEAN, assumeyes : BOOLEAN,
          path_pattern : {FALSE}]
    [] s = "deny_rule_exceptions" ->
         [command : {"add", "delete"}, activate : BOOLEAN,
          assumeyes : BOOLEAN, path_pattern : {FALSE}] \cup
         [command : {"list"}, activate : {FALSE}, assumeyes : {FALSE},
          path_pattern : {FALSE}]
    [] s = "enable_deny_rule_group" ->
         [command : {""}, activate : {FALSE}, assumeyes : BOOLEAN,
          path_pattern : {FALSE}]
    [] s = "ip_list_relationships" ->
         [command : {"blacklist"}, activate : BOOLEAN, assumeyes : BOOLEAN,
          path_pattern : {FALSE}] \cup
         [command : {"whitelist"}, activate : BOOLEAN, assumeyes : BOOLEAN,
          path_pattern : BOOLEAN] \cup
         [command : {"list"}, activate : {FALSE}, assumeyes : {FALSE},
          path_pattern : {FALSE}]
    [] s = "ip_list_relationships_8_2" ->
         [command : {"update"}, activate : {FALSE}, assumeyes : BOOLEAN,
          path_pattern : {FALSE}] \cup
         [command : {"list"}, activate : {FALSE}, assumeyes : {FALSE},
          path_pattern : {FALSE}]
    [] s = "maintenance" ->
         [command : {"enable", "disable", "show", "delete"},
          activate : BOOLEAN, assumeyes : BOOLEAN, path_pattern : {FALSE}]
    [] s = "set_log_only" ->
         [command : {""}, activate : BOOLEAN, assumeyes : BOOLEAN,
          path_pattern : {FALSE}]

\* Answers of the user to a yes/no prompt.
Answers == {"y", "n"}

\* Session and lifecycle requests; the others read or change the
\* configuration.
Lifecycle ==
  {"/session/create", "/system/status/node", "/session/terminate",
   "/configuration/configurations/load-active",
   "/configuration/validator-messages",
   "/configuration/configurations/activate",
   "/configuration/configurations/save"}

\* What the log keeps of a request: the status of a lifecycle request, and
\* 0 in its place for a configuration request.
Entry(q) ==
  [method |-> q.method, path |-> q.path,
   st |-> IF q.path \in Lifecycle THEN q.st ELSE 0]

\* The configuration requests recorded since the last lifecycle request.
SinceLifecycle(lg) ==
  LET last == CHOOSE k \in 0..Len(lg) :
                /\ k > 0 => lg[k].path \in Lifecycle
                /\ \A l \in (k + 1)..Len(lg) : lg[l].path \notin Lifecycle
  IN  {lg[l] : l \in (last + 1)..Len(lg)}

\* The log lg after one more request: every lifecycle request is recorded.
\* The loops over mappings and groups repeat the same configuration
\* requests: one with the method and path of a request already recorded
\* since the last lifecycle request is not recorded again.
RecordOne(lg, e) ==
  IF e.path \notin Lifecycle
     /\ \E f \in SinceLifecycle(lg) : f.method = e.method /\ f.path = e.path
    THEN lg ELSE Append(lg, e)

\* The log after the requests reqs, in the order they were sent.
RECURSIVE Record(_, _)
Record(lg, reqs) ==
  IF reqs = <<>> THEN lg
  ELSE CHOOSE r \in {Record(l2, Tail(reqs)) :
                       l2 \in {RecordOne(lg, Entry(Head(reqs)))}} : TRUE

\* sys.exit after o returned.
SysExit(o) ==
  IF o.out # "ret" THEN o
  ELSE [reqs |-> o.reqs, out |-> "exit", code |-> 0, val |-> o.val,
        cnt |-> o.cnt]

\* The value of the session variable after create_session ended as o.
SessionOf(o) ==
  IF o.out # "ret" THEN "unset"
  ELSE IF o.val = "GatewaySession" THEN "open" ELSE "None"

\* What the script remembers of the value al.activate returned.
ActOf(a) == IF a.out # "ret" THEN "raised" ELSE a.val

At(s, p) == script = s /\ pc = p /\ status = "running"

\* The step ended as o: the run goes on at next when o returned and ends
\* otherwise.
Step(o, next, sel2, session2) ==
  /\ \E r \in {o} :
       /\ log' = Record(log, r.reqs)
       /\ IF r.out = "ret"
            THEN /\ pc' = next
                 /\ status' = IF next = "end" THEN "done" ELSE "running"
            ELSE pc' = "end" /\ status' = r.out
  /\ session' = session2
  /\ sel' = sel2
  /\ UNCHANGED <<call, script, args>>

Nothing == Pure("ret", "None")

ScriptInit ==
  /\ call = NoCall
  /\ script \in Scripts
  /\ args \in ArgSets(script)
  /\ pc = "create" /\ session = "unset" /\ log = <<>>
  /\ status = "running" /\ sel = NoSel

----------------------------------------------------------------------------
(* enable_deny_rule_group.py *)

enable_deny_rule_group_terminate_with_error(res) ==
  SysExit(terminate_session(res))

enable_deny_rule_group_create ==
  /\ At("enable_deny_rule_group", "create")
  /\ \E r1 \in StatusOnly :
     \E r2 \in IfSent(Sends(create_session(r1, NoAnswer), 2), Resp({200})) :
       LET o == create_session(r1, r2)
       IN  Step(IF o.out = "ret" /\ o.val = "None" THEN SysExit(o) ELSE o,
                "load", sel, SessionOf(o))

enable_deny_rule_group_load ==
  /\ At("enable_deny_rule_group", "load")
  /\ \E r \in StatusOnly : Step(load_active_config(r), "select", sel, session)

enable_deny_rule_group_select ==
  /\ At("enable_deny_rule_group", "select")
  /\ \E r1 \in Resp({200}) :
       LET m == get_all_mappings(r1)
           none == m.out = "ret" /\ (m.val = "None" \/ m.cnt = 0)
       IN  \E r2 \in IfSent(none, StatusOnly) :
             IF none
               THEN Step(Then(m, enable_deny_rule_group_terminate_with_error(r2)),
                         "end", sel, session)
               ELSE Step(m, "loop", [sel EXCEPT !.nmap = m.cnt, !.mi = 1],
                         session)

\* mapping_drg['attributes'] of None raises TypeError.
enable_deny_rule_group_loop ==
  /\ At("enable_deny_rule_group", "loop")
  /\ \E r1 \in Resp({200, 404}) :
       LET g == get_mapping_deny_rule_group(r1)
           updates == g.out = "ret" /\ g.val # "None"
       IN  \E r2 \in IfSent(updates, StatusOnly) :
             Step(IF updates THEN Then(g, update_mapping_deny_rule_group(r2))
                  ELSE IF g.out = "ret" THEN Fail(g) ELSE g,
                  IF sel.mi < sel.nmap THEN "loop" ELSE "confirm",
                  [sel EXCEPT !.mi = @ + 1], session)

enable_deny_rule_group_confirm ==
  /\ At("enable_deny_rule_group", "confirm")
  /\ IF args.assumeyes THEN Step(Nothing, "commit", sel, session)
     ELSE \E ans \in Answers :
          \E r \in IfSent(ans # "y", StatusOnly) :
            IF ans = "y" THEN Step(Nothing, "commit", sel, session)
            ELSE Step(enable_deny_rule_group_terminate_with_error(r), "end",
                      sel, session)

enable_deny_rule_group_commit ==
  /\ At("enable_deny_rule_group", "commit")
  /\ \E r1 \in Resp({200}) :
     \E r2 \in IfSent(Sends(activate(r1, NoAnswer), 2), StatusOnly) :
       LET a == activate(r1, r2)
           saves == a.out = "ret" /\ a.val # "True"
       IN  \E r3 \in IfSent(saves, Resp({200})) :
             Step(IF saves THEN Then(a, save_config(r3)) ELSE a,
                  "terminate", [sel EXCEPT !.act = ActOf(a)], session)

enable_deny_rule_group_terminate ==
  /\ At("enable_deny_rule_group", "terminate")
  /\ \E r \in StatusOnly : Step(terminate_session(r), "end", sel, session)

----------------------------------------------------------------------------
(* maintenance.py *)

maintenance_terminate_with_error(res) == SysExit(terminate_session(res))

\* k: how many mapping names the pattern matches.
get_selected_mappings(k, res) ==
  LET m == get_all_mappings(res)
  IN  IF m.out # "ret" THEN m
      ELSE IF m.val = "None" THEN Fail(m)
      ELSE Ret(m, "list", Min(k, m.cnt))

maintenance_create ==
  /\ At("maintenance", "create")
  /\ \E r1 \in StatusOnly :
     \E r2 \in IfSent(Sends(create_session(r1, NoAnswer), 2), Resp({200})) :
       LET o == create_session(r1, r2)
       IN  Step(IF o.out = "ret" /\ o.val = "None" THEN SysExit(o) ELSE o,
                "load", sel, SessionOf(o))

maintenance_load ==
  /\ At("maintenance", "load")
  /\ \E r \in StatusOnly : Step(load_active_config(r), "select", sel, session)

maintenance_select ==
  /\ At("maintenance", "select")
  /\ \E r1 \in Resp({200}) : \E k \in Matching(r1) :
       LET m == get_selected_mappings(k, r1)
           none == m.out = "ret" /\ m.cnt = 0
       IN  \E r2 \in IfSent(none, StatusOnly) :
             IF none
               THEN Step(Then(m, maintenance_terminate_with_error(r2)), "end",
                         sel, session)
               ELSE Step(m, IF args.command = "show" THEN "show" ELSE "loop",
                         [sel EXCEPT !.nmap = m.cnt, !.mi = 1], session)

maintenance_show ==
  /\ At("maintenance", "show")
  /\ \E r \in StatusOnly :
       Step(SysExit(terminate_session(r)), "end", sel, session)

maintenance_loop ==
  /\ At("maintenance", "loop")
  /\ \E r \in StatusOnly :
       LET o == IF args.command = "delete"
                  THEN delete("/configuration/mappings/{id}",
                              ExpList(<<204, 404>>), r)
                  ELSE patch("/configuration/mappings/{id}",
                             ExpList(<<200, 404>>), r)
       IN  Step(o, IF sel.mi < sel.nmap THEN "loop" ELSE "confirm",
                [sel EXCEPT !.mi = @ + 1], session)

maintenance_confirm ==
  /\ At("maintenance", "confirm")
  /\ IF args.assumeyes THEN Step(Nothing, "commit", sel, session)
     ELSE \E ans \in Answers :
          \E r \in IfSent(ans # "y", StatusOnly) :
            IF ans = "y" THEN Step(Nothing, "commit", sel, session)
            ELSE Step(maintenance_terminate_with_error(r), "end", sel, session)

maintenance_commit ==
  /\ At("maintenance", "commit")
  /\ \E r1 \in IfSent(args.activate, Resp({200})) :
     \E r2 \in IfSent(args.activate /\ Sends(activate(r1, NoAnswer), 2),
                      StatusOnly) :
       LET a == activate(r1, r2)
           saves == args.activate => (a.out = "ret" /\ a.val # "True")
       IN  \E r3 \in IfSent(saves, Resp({200})) :
             IF args.activate
               THEN Step(IF saves THEN Then(a, save_config(r3)) ELSE a,
                         "terminate", [sel EXCEPT !.act = ActOf(a)], session)
               ELSE Step(save_config(r3), "terminate", sel, session)

maintenance_terminate ==
  /\ At("maintenance", "terminate")
  /\ \E r \in StatusOnly : Step(terminate_session(r), "end", sel, session)

----------------------------------------------------------------------------
(* add_custom_dr.py *)

\* terminate_with_error(message, session): the session is terminated only
\* when one is given.
add_custom_dr_terminate_with_error(session_given, res) ==
  IF session_given THEN SysExit(terminate_session(res))
  ELSE SysExit(Nothing)

add_custom_dr_create ==
  /\ At("add_custom_dr", "create")
  /\ \E r1 \in StatusOnly :
     \E r2 \in IfSent(Sends(create_session(r1, NoAnswer), 2), Resp({200})) :
       LET o == create_session(r1, r2)
       IN  Step(IF o.out = "ret" /\ o.val = "None" THEN SysExit(o) ELSE o,
                "load", sel, SessionOf(o))

add_custom_dr_load ==
  /\ At("add_custom_dr", "load")
  /\ \E r \in StatusOnly : Step(load_active_config(r), "rule", sel, session)

\* res_rule.json().get("data", {}): the body has to be JSON.
add_custom_dr_rule ==
  /\ At("add_custom_dr", "rule")
  /\ \E r \in Resp({201}) :
       LET o == post("/configuration/custom-deny-rules", ExpInt(201), r)
       IN  Step(IF o.out # "ret" THEN o
                ELSE IF r.body.kind = "nojson" THEN Fail(Used(o))
                ELSE Used(o),
                "group", sel, session)

\* found: a group of the listing has the name --custom-group-name.
\* group_id: the id of that group ("{existing}"), else the id in the answer
\* to the POST ("{new}"), which new_group.get("id") gives as None when the
\* answer has no data.
add_custom_dr_group ==
  /\ At("add_custom_dr", "group")
  /\ \E r1 \in Resp({200}) :
       LET g == get("/configuration/custom-deny-rule-groups",
                    ExpInt(200), r1)
           listed == g.out = "ret" /\ r1.body.kind # "nojson"
       IN  \E found \in IF listed /\ r1.body.kind = "data" /\ r1.body.cnt > 0
                          THEN BOOLEAN ELSE {FALSE} :
           \E r2 \in IfSent(listed /\ ~found, Resp({201})) :
             LET c == Then(Used(g),
                           post("/configuration/custom-deny-rule-groups",
                                ExpInt(201), r2))
                 o == IF g.out # "ret" THEN g
                      ELSE IF ~listed THEN Fail(Used(g))
                      ELSE IF found THEN Used(g)
                      ELSE IF c.out # "ret" THEN c
                      ELSE IF r2.body.kind = "nojson" THEN Fail(Used(c))
                      ELSE Used(c)
                 group_id == IF o.out # "ret" THEN "unset"
                             ELSE IF found THEN "{existing}"
                             ELSE IF r2.body.kind = "data" THEN "{new}"
                             ELSE "None"
             IN  Step(o, "connect",
                      [sel EXCEPT !.found = found, !.group_id = group_id],
                      session)

\* Variant: the rule is connected to a new group's id in every case.
add_custom_dr_connect_new ==
  /\ At("add_custom_dr", "connect")
  /\ \E r \in StatusOnly :
       Step(patch("/configuration/custom-deny-rule-groups/{new}"
                    \o "/relationships/custom-deny-rules",
                  ExpList(<<204, 404>>), r),
            "confirm", sel, session)

add_custom_dr_connect ==
  /\ At("add_custom_dr", "connect")
  /\ \E r \in StatusOnly :
       Step(patch("/configuration/custom-deny-rule-groups/" \o sel.group_id
                    \o "/relationships/custom-deny-rules",
                  ExpList(<<204, 404>>), r),
            "confirm", sel, session)

add_custom_dr_confirm ==
  /\ At("add_custom_dr", "confirm")
  /\ IF args.assumeyes THEN Step(Nothing, "commit", sel, session)
     ELSE \E ans \in Answers :
          \E r \in IfSent(ans # "y", StatusOnly) :
            IF ans = "y" THEN Step(Nothing, "commit", sel, session)
            ELSE Step(add_custom_dr_terminate_with_error(session = "open", r),
                      "end", sel, session)

add_custom_dr_commit ==
  /\ At("add_custom_dr", "commit")
  /\ \E r1 \in IfSent(args.activate, Resp({200})) :
     \E r2 \in IfSent(args.activate /\ Sends(activate(r1, NoAnswer), 2),
                      StatusOnly) :
       LET a == activate(r1, r2)
           saves == args.activate => (a.out = "ret" /\ a.val # "True")
       IN  \E r3 \in IfSent(saves, Resp({200})) :
             IF args.activate
               THEN Step(IF saves THEN Then(a, save_config(r3)) ELSE a,
                         "terminate", [sel EXCEPT !.act = ActOf(a)], session)
               ELSE Step(save_config(r3), "terminate", sel, session)

add_custom_dr_terminate ==
  /\ At("add_custom_dr", "terminate")
  /\ \E r \in StatusOnly : Step(terminate_session(r), "end", sel, session)

----------------------------------------------------------------------------
(* ip_list_relationships_8_2.py *)

ip_list_relationships_8_2_terminate_with_error(res) ==
  SysExit(terminate_session(res))

list_ip_lists(res) ==
  LET o == get("/configuration/ip-address-lists", ExpInt(200), res)
  IN  IF o.out # "ret" THEN o
      ELSE IF res.body.kind = "nojson" THEN Fail(Used(o))
      ELSE Ret(Used(o), "None", 0)

\* k: how many mapping names the pattern matches; force: --assumeyes;
\* ans: the answer to "Continue with update?".
update_ip_list_relationship(k, force, ans, r1, r2, r3) ==
  LET m == select_mappings(TRUE, FALSE, k, r1, r1)
  IN  IF m.out # "ret" THEN m
      ELSE IF m.cnt = 0
        THEN Then(m, ip_list_relationships_8_2_terminate_with_error(r2))
      ELSE IF ~force /\ ans # "y"
        THEN Then(m, ip_list_relationships_8_2_terminate_with_error(r2))
      ELSE Then(m, patch("/configuration/ip-address-lists/{id}/relationships/{field}",
                         ExpList(<<204, 404>>), r3))

ip_list_relationships_8_2_create ==
  /\ At("ip_list_relationships_8_2", "create")
  /\ \E r1 \in StatusOnly :
     \E r2 \in IfSent(Sends(create_session(r1, NoAnswer), 2), Resp({200})) :
       LET o == create_session(r1, r2)
       IN  Step(IF o.out = "ret" /\ o.val = "None" THEN SysExit(o) ELSE o,
                "load", sel, SessionOf(o))

ip_list_relationships_8_2_load ==
  /\ At("ip_list_relationships_8_2", "load")
  /\ \E r \in StatusOnly :
       Step(load_active_config(r),
            IF args.command = "list" THEN "list" ELSE "update", sel, session)

ip_list_relationships_8_2_list ==
  /\ At("ip_list_relationships_8_2", "list")
  /\ \E r \in Resp({200}) : Step(list_ip_lists(r), "terminate", sel, session)

\* The answer to the prompt is drawn when the prompt is shown, the answers
\* of the gateway when the requests are sent.
ip_list_relationships_8_2_update ==
  /\ At("ip_list_relationships_8_2", "update")
  /\ \E r1 \in Resp({200}) : \E k \in Matching(r1) :
       LET m == select_mappings(TRUE, FALSE, k, r1, r1)
           some == m.out = "ret" /\ m.cnt > 0
       IN  \E ans \in IF some /\ ~args.assumeyes THEN Answers ELSE {"y"} :
           \E r2 \in IfSent(m.out = "ret" /\ (m.cnt = 0 \/ ans # "y"),
                            StatusOnly) :
           \E r3 \in IfSent(some /\ ans = "y", StatusOnly) :
             Step(update_ip_list_relationship(k, args.assumeyes, ans,
                                              r1, r2, r3),
                  "confirm", sel, session)

ip_list_relationships_8_2_confirm ==
  /\ At("ip_list_relationships_8_2", "confirm")
  /\ IF args.assumeyes THEN Step(Nothing, "commit", sel, session)
     ELSE \E ans \in Answers :
          \E r \in IfSent(ans # "y", StatusOnly) :
            IF ans = "y" THEN Step(Nothing, "commit", sel, session)
            ELSE Step(ip_list_relationships_8_2_terminate_with_error(r),
                      "end", sel, session)

ip_list_relationships_8_2_commit ==
  /\ At("ip_list_relationships_8_2", "commit")
  /\ \E r1 \in Resp({200}) :
     \E r2 \in IfSent(Sends(activate(r1, NoAnswer), 2), StatusOnly) :
       LET a == activate(r1, r2)
           saves == a.out = "ret" /\ a.val # "True"
       IN  \E r3 \in IfSent(saves, Resp({200})) :
             Step(IF saves THEN Then(a, save_config(r3)) ELSE a,
                  "terminate", [sel EXCEPT !.act = ActOf(a)], session)

ip_list_relationships_8_2_terminate ==
  /\ At("ip_list_relationships_8_2", "terminate")
  /\ \E r \in StatusOnly : Step(terminate_session(r), "end", sel, session)

----------------------------------------------------------------------------
(* utils.py *)

\* sess: the value of the session argument.  al.terminate_session of None
\* raises AttributeError before a request is sent.
terminate_session_with_error(sess, res) ==
  IF sess # "open" THEN Pure("error", "None")
  ELSE SysExit(terminate_session(res))

\* ans: the answer to "Save the new configuration on target?".
utils_save_config(assume_yes, ans, r1, r2) ==
  LET Saved(o) ==
        IF o.out = "ret" /\ o.val = "None"
          THEN Then(o, terminate_session_with_error("open", r2))
        ELSE o
  IN  IF ~assume_yes /\ ans # "y" THEN Nothing ELSE Saved(save_config(r1))

\* Variant: an activation that fails is not followed by a save.
activate_or_save_nosave(activate_flag, assume_yes, ansA, ansS, r1, r2, r3, r4) ==
  IF activate_flag
    THEN LET Activated(a) == IF a.out # "ret" THEN a ELSE Ret(a, "None", 0)
         IN  IF ~assume_yes /\ ansA # "y" THEN Nothing
             ELSE Activated(activate(r1, r2))
  ELSE utils_save_config(assume_yes, ansS, r3, r4)

\* ansA: the answer to "Activate the new configuration on target?".
activate_or_save(activate_flag, assume_yes, ansA, ansS, r1, r2, r3, r4) ==
  IF activate_flag
    THEN LET Activated(a) ==
               IF a.out # "ret" THEN a
               ELSE IF a.val = "True" THEN Ret(a, "None", 0)
               ELSE Then(a, utils_save_config(FALSE, ansS, r3, r4))
         IN  IF ~assume_yes /\ ansA # "y" THEN Nothing
             ELSE Activated(activate(r1, r2))
  ELSE utils_save_config(assume_yes, ansS, r3, r4)

setup_session(r1, r2, r3) ==
  LET Loaded(o) ==
        IF o.out # "ret" THEN o
        ELSE IF o.val = "None"
          THEN Then(o, terminate_session_with_error("None", r3))
        ELSE Then(o, load_active_config(r3))
  IN  Loaded(create_session(r1, r2))

----------------------------------------------------------------------------
(* ip_list_relationships.py *)

update_blacklist(k, force, ans, r1, r2, r3) ==
  LET Selected(m) ==
        IF m.out # "ret" THEN m
        ELSE IF m.cnt = 0
          THEN Then(m, terminate_session_with_error("open", r2))
        ELSE IF ~force /\ ans # "y"
          THEN Then(m, terminate_session_with_error("open", r2))
        ELSE Then(m, patch("/configuration/ip-address-lists/{id}/relationships/mappings-blacklist",
                           ExpList(<<204, 404>>), r3))
  IN  Selected(select_mappings(TRUE, FALSE, k, r1, r1))

\* The body of the loop of update_whitelist for one mapping: m.get of None
\* raises AttributeError.
update_whitelist_mapping(r1, r2) ==
  LET Updated(m) ==
        IF m.out # "ret" THEN m
        ELSE IF m.val = "None" THEN Fail(m)
        ELSE Then(m, update_mapping(r2))
  IN  Updated(get_mapping_by_id(r1))

ip_list_relationships_create ==
  /\ At("ip_list_relationships", "create")
  /\ \E r1 \in StatusOnly :
     \E r2 \in IfSent(Sends(create_session(r1, NoAnswer), 2), Resp({200})) :
     \E r3 \in IfSent(Sends(setup_session(r1, r2, NoAnswer), 3), StatusOnly) :
       Step(setup_session(r1, r2, r3),
            IF args.command = "list" THEN "list" ELSE "update",
            sel, SessionOf(create_session(r1, r2)))

ip_list_relationships_list ==
  /\ At("ip_list_relationships", "list")
  /\ \E r \in Resp({200}) : Step(list_ip_lists(r), "terminate", sel, session)

\* update --blacklist, and update --whitelist up to the selection of the
\* mappings of update_whitelist.
ip_list_relationships_update ==
  /\ At("ip_list_relationships", "update")
  /\ IF args.command = "whitelist" /\ ~args.path_pattern
       THEN Step(SysExit(Nothing), "end", sel, session)
     ELSE
       \E r1 \in Resp({200}) : \E k \in Matching(r1) :
         LET m == select_mappings(TRUE, FALSE, k, r1, r1)
             some == m.out = "ret" /\ m.cnt > 0
             asks == some /\ args.command = "blacklist" /\ ~args.assumeyes
         IN  \E ans \in IF asks THEN Answers ELSE {"y"} :
             \E r2 \in IfSent(m.out = "ret" /\ (m.cnt = 0 \/ ans # "y"),
                              StatusOnly) :
             \E r3 \in IfSent(some /\ ans = "y" /\ args.command = "blacklist",
                              StatusOnly) :
               IF args.command = "blacklist"
                 THEN Step(update_blacklist(k, args.assumeyes, ans,
                                            r1, r2, r3),
                           "confirm", sel, session)
                 ELSE Step(IF some \/ m.out # "ret" THEN m
                           ELSE Then(m, terminate_session_with_error("open",
                                                                     r2)),
                           "loop", [sel EXCEPT !.nmap = m.cnt, !.mi = 1],
                           session)

ip_list_relationships_loop ==
  /\ At("ip_list_relationships", "loop")
  /\ \E r1 \in Resp({200}) :
     \E r2 \in IfSent(Sends(update_whitelist_mapping(r1, NoAnswer), 2),
                      StatusOnly) :
       Step(update_whitelist_mapping(r1, r2),
            IF sel.mi < sel.nmap THEN "loop" ELSE "confirm",
            [sel EXCEPT !.mi = @ + 1], session)

ip_list_relationships_confirm ==
  /\ At("ip_list_relationships", "confirm")
  /\ IF args.assumeyes THEN Step(Nothing, "commit", sel, session)
     ELSE \E ans \in Answers :
          \E r \in IfSent(ans # "y", StatusOnly) :
            IF ans = "y" THEN Step(Nothing, "commit", sel, session)
            ELSE Step(terminate_session_with_error(session, r),
                      "end", sel, session)

ip_list_relationships_commit ==
  /\ At("ip_list_relationships", "commit")
  /\ \E r1 \in IfSent(args.activate, Resp({200})) :
     \E r2 \in IfSent(args.activate /\ Sends(activate(r1, NoAnswer), 2),
                      StatusOnly) :
       LET a == activate(r1, r2)
           saves == args.activate => (a.out = "ret" /\ a.val # "True")
       IN  \E r3 \in IfSent(saves, Resp({200})) :
             IF args.activate
               THEN Step(IF saves THEN Then(a, save_config(r3)) ELSE a,
                         "terminate", [sel EXCEPT !.act = ActOf(a)], session)
               ELSE Step(save_config(r3), "terminate", sel, session)

ip_list_relationships_terminate ==
  /\ At("ip_list_relationships", "terminate")
  /\ \E r \in StatusOnly : Step(terminate_session(r), "end", sel, session)

----------------------------------------------------------------------------
(* set_log_only.py *)

set_log_only_get_selected_mappings(k, r1, r2) ==
  LET Selected(m) ==
        IF m.out = "ret" /\ m.cnt = 0
          THEN Then(m, terminate_session_with_error("open", r2))
        ELSE m
  IN  Selected(select_mappings(TRUE, FALSE, k, r1, r1))

\* k: how many group names the regular expression matches.  Iterating over
\* None raises TypeError.
get_selected_groups(k, res) ==
  LET g == dr_get_deny_rule_groups(res)
  IN  IF g.out # "ret" THEN g
      ELSE IF g.val = "None" THEN Fail(g)
      ELSE Ret(g, "list", Min(k, g.cnt))

get_selected_custom_groups(k, res) ==
  LET g == get_custom_deny_rule_groups(res)
  IN  IF g.out # "ret" THEN g
      ELSE IF g.val = "None" THEN Fail(g)
      ELSE Ret(g, "list", Min(k, g.cnt))

\* Where the loops of update_logonly_mode go on after the built-in group gi
\* (custom = FALSE) or the custom group gi (custom = TRUE) of mapping mi.
AfterToggle(sl, custom) ==
  IF ~custom /\ sl.gi < sl.ngrp
    THEN [pc |-> "builtin", mi |-> sl.mi, gi |-> sl.gi + 1]
  ELSE IF ~custom /\ sl.ncgrp > 0
    THEN [pc |-> "custom", mi |-> sl.mi, gi |-> 1]
  ELSE IF custom /\ sl.gi < sl.ncgrp
    THEN [pc |-> "custom", mi |-> sl.mi, gi |-> sl.gi + 1]
  ELSE IF sl.mi < sl.nmap
    THEN [pc |-> IF sl.ngrp > 0 THEN "builtin" ELSE "custom",
          mi |-> sl.mi + 1, gi |-> 1]
  ELSE [pc |-> "summary", mi |-> sl.mi, gi |-> sl.gi]

\* The answers to the query of a group: it has at most MaxRules rules.
GroupAnswers == {r \in Resp({200, 404}) : r.body.cnt <= MaxRules}

set_log_only_create ==
  /\ At("set_log_only", "create")
  /\ \E r1 \in StatusOnly :
     \E r2 \in IfSent(Sends(create_session(r1, NoAnswer), 2), Resp({200})) :
     \E r3 \in IfSent(Sends(setup_session(r1, r2, NoAnswer), 3), StatusOnly) :
       Step(setup_session(r1, r2, r3), "select", sel,
            SessionOf(create_session(r1, r2)))

set_log_only_select ==
  /\ At("set_log_only", "select")
  /\ \E r1 \in Resp({200}) : \E k \in Matching(r1) :
     \E r2 \in IfSent(Sends(set_log_only_get_selected_mappings(k, r1, NoAnswer),
                            2), StatusOnly) :
       LET m == set_log_only_get_selected_mappings(k, r1, r2)
       IN  Step(m, "groups", [sel EXCEPT !.nmap = m.cnt], session)

set_log_only_groups ==
  /\ At("set_log_only", "groups")
  /\ \E r \in Resp({200}) : \E k \in Matching(r) :
       LET g == get_selected_groups(k, r)
       IN  Step(g, "cgroups", [sel EXCEPT !.ngrp = g.cnt], session)

\* The custom groups, then the prompt "Do you want to continue and update
\* the log-only mode?".
set_log_only_cgroups ==
  /\ At("set_log_only", "cgroups")
  /\ \E r \in Resp({200}) : \E k \in Matching(r) :
       LET g == get_selected_custom_groups(k, r)
       IN  \E ans \in IF g.out = "ret" /\ ~args.assumeyes
                        THEN Answers ELSE {"y"} :
           \E r2 \in IfSent(ans # "y", StatusOnly) :
             Step(IF ans # "y"
                    THEN Then(g, terminate_session_with_error(session, r2))
                  ELSE g,
                  IF sel.ngrp > 0 THEN "builtin"
                  ELSE IF g.cnt > 0 THEN "custom" ELSE "summary",
                  [sel EXCEPT !.ncgrp = g.cnt, !.mi = 1, !.gi = 1], session)

set_log_only_builtin ==
  /\ At("set_log_only", "builtin")
  /\ \E r1 \in StatusOnly :
     \E r2 \in IfSent(Sends(toggle_builtin_deny_rule_group_logonly(
                              r1, NoAnswer, <<>>), 2), GroupAnswers) :
     \E rs \in RuleAnswers(r2, FALSE) :
       LET n == AfterToggle(sel, FALSE)
           t == toggle_builtin_deny_rule_group_logonly(r1, r2, rs)
       IN  Step(IF t.out = "ret" THEN Ret(t, "None", 0) ELSE t, n.pc,
                [sel EXCEPT !.mi = n.mi, !.gi = n.gi], session)

set_log_only_custom ==
  /\ At("set_log_only", "custom")
  /\ \E r1 \in StatusOnly :
     \E r2 \in IfSent(Sends(toggle_custom_deny_rule_group_logonly(
                              r1, NoAnswer, <<>>), 2), GroupAnswers) :
     \E rs \in RuleAnswers(r2, TRUE) :
       LET n == AfterToggle(sel, TRUE)
           t == toggle_custom_deny_rule_group_logonly(r1, r2, rs)
       IN  Step(IF t.out = "ret" THEN Ret(t, "None", 0) ELSE t, n.pc,
                [sel EXCEPT !.mi = n.mi, !.gi = n.gi], session)

\* The change summary selects the mappings again and iterates over them.
set_log_only_summary ==
  /\ At("set_log_only", "summary")
  /\ \E r \in Resp({200}) : \E k \in Matching(r) :
       Step(select_mappings(TRUE, FALSE, k, r, r), "commit", sel, session)

\* tried: al.activate is called; asked: the prompt of save_config is shown;
\* saves: al.save_config is called.
set_log_only_commit ==
  /\ At("set_log_only", "commit")
  /\ \E ansA \in IF args.activate /\ ~args.assumeyes
                   THEN Answers ELSE {"y"} :
     LET tried == args.activate /\ ansA = "y"
     IN
     \E r1 \in IfSent(tried, Resp({200})) :
     \E r2 \in IfSent(tried /\ Sends(activate(r1, NoAnswer), 2), StatusOnly) :
       LET a == activate(r1, r2)
           asked == IF args.activate
                      THEN tried /\ a.out = "ret" /\ a.val # "True"
                    ELSE ~args.assumeyes
       IN  \E ansS \in IF asked THEN Answers ELSE {"y"} :
           LET saves == IF args.activate THEN asked /\ ansS = "y"
                        ELSE ansS = "y"
           IN
           \E r3 \in IfSent(saves, Resp({200})) :
           \E r4 \in IfSent(saves /\ Sends(utils_save_config(TRUE, "y", r3,
                                                              NoAnswer), 2),
                            StatusOnly) :
             Step(activate_or_save(args.activate, args.assumeyes, ansA, ansS,
                                   r1, r2, r3, r4),
                  "terminate",
                  [sel EXCEPT !.act = IF tried THEN ActOf(a) ELSE "unset",
                              !.saveans = IF asked THEN ansS ELSE "unset"],
                  session)

set_log_only_terminate ==
  /\ At("set_log_only", "terminate")
  /\ \E r \in StatusOnly : Step(terminate_session(r), "end", sel, session)

----------------------------------------------------------------------------
(* deny_rule_exceptions.py *)

deny_rule_exceptions_terminate_with_error(res) ==
  SysExit(terminate_session(res))

\* The position after (mi, gi) in "for mapping ...: for group ...:".
LastPair(sl) == sl.mi = sl.nmap /\ sl.gi = sl.ngrp
NextPair(sl) ==
  IF sl.gi < sl.ngrp THEN [sl EXCEPT !.gi = @ + 1]
  ELSE [sl EXCEPT !.mi = @ + 1, !.gi = 1]

\* group_data["attributes"] of None raises TypeError.
group_data(res) ==
  LET g == get_mapping_deny_rule_group(res)
  IN  IF g.out = "ret" /\ g.val = "None" THEN Fail(g) ELSE g

\* Whether the group that r answers with can hold an exception with the
\* identifier.
HasExceptions(r) == r.body.kind = "data" /\ r.body.cnt > 0

\* Any exception of create_session ends the run with sys.exit.
deny_rule_exceptions_create ==
  /\ At("deny_rule_exceptions", "create")
  /\ \E r1 \in StatusOnly :
     \E r2 \in IfSent(Sends(create_session(r1, NoAnswer), 2), Resp({200})) :
       LET o == create_session(r1, r2)
       IN  Step(IF o.out # "ret"
                  THEN [reqs |-> o.reqs, out |-> "exit", code |-> 0,
                        val |-> "None", cnt |-> 0]
                ELSE o,
                "load", sel, SessionOf(o))

\* load_active_config(None) raises AttributeError before a request is sent.
deny_rule_exceptions_load ==
  /\ At("deny_rule_exceptions", "load")
  /\ \E r \in IfSent(session = "open", StatusOnly) :
       Step(IF session = "open" THEN load_active_config(r)
            ELSE Pure("error", "None"),
            IF args.command = "list" THEN "list" ELSE "select", sel, session)

deny_rule_exceptions_list ==
  /\ At("deny_rule_exceptions", "list")
  /\ \E r \in Resp({200}) : \E k \in Matching(r) :
       LET m == select_mappings(TRUE, FALSE, k, r, r)
       IN  Step(m, "listgroups", [sel EXCEPT !.nmap = m.cnt], session)

deny_rule_exceptions_listgroups ==
  /\ At("deny_rule_exceptions", "listgroups")
  /\ \E r \in Resp({200}) : \E k \in Matching(r) :
       LET g == get_deny_rule_groups(r)
           o == IF g.out # "ret" THEN g
                ELSE IF g.val = "None" THEN Fail(g)
                ELSE Ret(g, "list", Min(k, g.cnt))
       IN  Step(o, IF sel.nmap > 0 /\ o.cnt > 0 THEN "listloop"
                   ELSE "terminate",
                [sel EXCEPT !.ngrp = o.cnt, !.mi = 1, !.gi = 1], session)

deny_rule_exceptions_listloop ==
  /\ At("deny_rule_exceptions", "listloop")
  /\ \E r \in Resp({200, 404}) :
       Step(group_data(r), IF LastPair(sel) THEN "terminate" ELSE "listloop",
            NextPair(sel), session)

deny_rule_exceptions_terminate ==
  /\ At("deny_rule_exceptions", "terminate")
  /\ \E r \in StatusOnly : Step(terminate_session(r), "end", sel, session)

\* get_mappings_and_groups: the mappings.
deny_rule_exceptions_select ==
  /\ At("deny_rule_exceptions", "select")
  /\ \E r1 \in Resp({200}) : \E k \in Matching(r1) :
       LET m == select_mappings(TRUE, FALSE, k, r1, r1)
           none == m.out = "ret" /\ m.cnt = 0
       IN  \E r2 \in IfSent(none, StatusOnly) :
             Step(IF none
                    THEN Then(m, deny_rule_exceptions_terminate_with_error(r2))
                  ELSE m,
                  "groups", [sel EXCEPT !.nmap = m.cnt], session)

\* get_mappings_and_groups: the groups and "Do you want to continue?".
deny_rule_exceptions_groups ==
  /\ At("deny_rule_exceptions", "groups")
  /\ \E r1 \in Resp({200}) : \E k \in Matching(r1) :
       LET g == get_deny_rule_groups(r1)
           listed == g.out = "ret" /\ g.val # "None"
           n == IF listed THEN Min(k, g.cnt) ELSE 0
       IN  \E ans \in IF n > 0 /\ ~args.assumeyes THEN Answers ELSE {"y"} :
           LET stops == listed /\ (n = 0 \/ ans # "y")
           IN
           \E r2 \in IfSent(stops, StatusOnly) :
             Step(IF g.out # "ret" THEN g
                  ELSE IF ~listed THEN Fail(g)
                  ELSE IF stops
                    THEN Then(g, deny_rule_exceptions_terminate_with_error(r2))
                  ELSE g,
                  IF args.command = "add" THEN "check" ELSE "loop",
                  [sel EXCEPT !.ngrp = n, !.mi = 1, !.gi = 1], session)

\* add_exception, first loop.  exists: the group already has an exception
\* with the identifier.
deny_rule_exceptions_check ==
  /\ At("deny_rule_exceptions", "check")
  /\ \E r1 \in Resp({200, 404}) :
       LET g == group_data(r1)
       IN  \E exists \in IF g.out = "ret" /\ HasExceptions(r1)
                           THEN BOOLEAN ELSE {FALSE} :
           \E r2 \in IfSent(exists, StatusOnly) :
             Step(IF exists
                    THEN Then(g, deny_rule_exceptions_terminate_with_error(r2))
                  ELSE g,
                  IF LastPair(sel) THEN "loop" ELSE "check",
                  IF LastPair(sel) THEN [sel EXCEPT !.mi = 1, !.gi = 1]
                  ELSE NextPair(sel),
                  session)

\* The updating loop of add_exception and of delete_exception.  removed: an
\* exception with the identifier was removed from this group.
deny_rule_exceptions_loop ==
  /\ At("deny_rule_exceptions", "loop")
  /\ \E r1 \in Resp({200, 404}) :
     \E r2 \in IfSent(group_data(r1).out = "ret", StatusOnly) :
       LET u == Then(group_data(r1), update_mapping_deny_rule_group(r2))
       IN  \E removed \in IF u.out = "ret" /\ args.command = "delete"
                               /\ HasExceptions(r1)
                            THEN BOOLEAN ELSE {FALSE} :
           LET d == sel.deleted \/ removed
               stops == u.out = "ret" /\ LastPair(sel)
                          /\ args.command = "delete" /\ ~d
           IN
           \E r3 \in IfSent(stops, StatusOnly) :
             Step(IF stops
                    THEN Then(u, deny_rule_exceptions_terminate_with_error(r3))
                  ELSE u,
                  IF LastPair(sel) THEN "confirm" ELSE "loop",
                  [NextPair(sel) EXCEPT !.deleted = d], session)

deny_rule_exceptions_confirm ==
  /\ At("deny_rule_exceptions", "confirm")
  /\ IF args.assumeyes THEN Step(Nothing, "commit", sel, session)
     ELSE \E ans \in Answers :
          \E r \in IfSent(ans # "y", StatusOnly) :
            IF ans = "y" THEN Step(Nothing, "commit", sel, session)
            ELSE Step(deny_rule_exceptions_terminate_with_error(r),
                      "end", sel, session)

\* main names the variable comment, which is not defined: evaluating the
\* arguments of al.activate or al.save_config raises NameError.
deny_rule_exceptions_commit ==
  /\ At("deny_rule_exceptions", "commit")
  /\ Step(Pure("error", "None"), "terminate", sel, session)

----------------------------------------------------------------------------
(* One run of one script. *)

ScriptNext ==
  \/ add_custom_dr_create \/ add_custom_dr_load \/ add_custom_dr_rule
  \/ add_custom_dr_group \/ add_custom_dr_connect \/ add_custom_dr_confirm
  \/ add_custom_dr_commit \/ add_custom_dr_terminate
  \/ deny_rule_exceptions_create \/ deny_rule_exceptions_load
  \/ deny_rule_exceptions_list \/ deny_rule_exceptions_listgroups
  \/ deny_rule_exceptions_listloop \/ deny_rule_exceptions_terminate
  \/ deny_rule_exceptions_select \/ deny_rule_exceptions_groups
  \/ deny_rule_exceptions_check \/ deny_rule_exceptions_loop
  \/ deny_rule_exceptions_confirm \/ deny_rule_exceptions_commit
  \/ enable_deny_rule_group_create \/ enable_deny_rule_group_load
  \/ enable_deny_rule_group_select \/ enable_deny_rule_group_loop
  \/ enable_deny_rule_group_confirm \/ enable_deny_rule_group_commit
  \/ enable_deny_rule_group_terminate
  \/ ip_list_relationships_create \/ ip_list_relationships_list
  \/ ip_list_relationships_update \/ ip_list_relationships_loop
  \/ ip_list_relationships_confirm \/ ip_list_relationships_commit
  \/ ip_list_relationships_terminate
  \/ ip_list_relationships_8_2_create \/ ip_list_relationships_8_2_load
  \/ ip_list_relationships_8_2_list \/ ip_list_relationships_8_2_update
  \/ ip_list_relationships_8_2_confirm \/ ip_list_relationships_8_2_commit
  \/ ip_list_relationships_8_2_terminate
  \/ maintenance_create \/ maintenance_load \/ maintenance_select
  \/ maintenance_show \/ maintenance_loop \/ maintenance_confirm
  \/ maintenance_commit \/ maintenance_terminate
  \/ set_log_only_create \/ set_log_only_select \/ set_log_only_groups
  \/ set_log_only_cgroups \/ set_log_only_builtin \/ set_log_only_custom
  \/ set_log_only_summary \/ set_log_only_commit \/ set_log_only_terminate

ScriptSpec == ScriptInit /\ [][ScriptNext]_vars

----------------------------------------------------------------------------
(* Claims about script runs (ScriptSpec). *)

Mutation(e) ==
  e.path \notin Lifecycle /\ e.method \in {"POST", "PATCH", "PUT", "DELETE"}

Positions(lg, path) == {i \in DOMAIN lg : lg[i].path = path}

Terminates(lg) == Positions(lg, "/session/terminate")
Saves(lg) == Positions(lg, "/configuration/configurations/save")
Activations(lg) == Positions(lg, "/configuration/configurations/activate")

\* C5: in every script run the requests follow the order create session,
\* load active configuration, read/mutate, save or activate, terminate: the
\* first request creates the session, no configuration request is sent
\* before the load was answered with 204, no mutation is sent after a save
\* or activate request, and no request is sent after the terminate request.
C5_RequestOrder ==
  /\ log # <<>> => log[1].path = "/session/create"
  /\ \A i \in DOMAIN log :
       /\ log[i].path \notin Lifecycle =>
            \E j \in 1..(i - 1) :
              /\ log[j].path = "/configuration/configurations/load-active"
              /\ log[j].st = 204
       /\ i \in Saves(log) \cup Activations(log) =>
            \A j \in (i + 1)..Len(log) : ~Mutation(log[j])
       /\ i \in Terminates(log) => i = Len(log)

\* A run that went through all the stages: it loaded, changed and saved the
\* configuration and terminated the session.
C5_Witness ==
  /\ status = "done"
  /\ \E i, j, k, l \in DOMAIN log :
       /\ i < j /\ j < k /\ k < l
       /\ log[i].path = "/configuration/configurations/load-active"
       /\ Mutation(log[j])
       /\ k \in Saves(log)
       /\ l \in Terminates(log)

\* The script ended on a path of its own: it ran to its end or called
\* sys.exit.
OwnExit == status \in {"done", "exit"}

\* C6: a script run that created a session sends exactly one terminate
\* request before the process exits, on every exit path the script itself
\* takes (completion, a prompt answered no, nothing selected, an argument
\* error found after the session was created).
C6_OneTerminateOnExit ==
  (OwnExit /\ session = "open") => Cardinality(Terminates(log)) = 1

ActivateScripts ==
  {"add_custom_dr", "maintenance", "ip_list_relationships", "set_log_only"}

\* The parts of C7 that do not depend on the fallback: the activation
\* endpoint is contacted only if --activate was given, and no save request
\* is sent when al.activate returned True.
ActivateOnlyIfAsked ==
  /\ Activations(log) # {} => args.activate
  /\ sel.act # "unset" => args.activate
  /\ sel.act = "True" => Saves(log) = {}

\* A save request was sent, and before the terminate request if there is
\* one.
SavedBeforeTerminate ==
  \E i \in Saves(log) : \A j \in Terminates(log) : i < j

ActivationRejected ==
  \E i \in Activations(log) : log[i].st # 200

\* C8: whenever an activation attempt fails, because validation reports
\* errors or because the activation request is answered with a non-200
\* status, the script sends a save request and then terminates the session.
C8_FailedActivationSaves ==
  (/\ script \in {"enable_deny_rule_group", "ip_list_relationships_8_2"}
   /\ status # "running"
   /\ sel.act = "False" \/ ActivationRejected)
  => \E i \in Saves(log) : \E j \in Terminates(log) : i < j

\* C9: when, after the session was created, a request raises
\* AirlockGatewayRestError or the script hits another unhandled exception,
\* a terminate request is sent before the process exits.
C9_CleanupOnError ==
  (session = "open" /\ status \in {"rest_error", "error"})
  => Terminates(log) # {}

----------------------------------------------------------------------------
(* Further claims about the library. *)

\* Every request the call sent was answered 200 with a list of mappings.
AnsweredWithMappings ==
  \A k \in DOMAIN call.res.reqs :
    call.rs[k].st = 200 /\ call.rs[k].body.kind = "data"

\* C11: select_mappings returns a list of mappings and sends only GET
\* requests: all mappings when neither pattern nor label is given, the
\* labeled ones when only label is given, some of the mappings when only
\* pattern is given, and the union of both selections when both are given.
C11_SelectMappingsReturns ==
  (call.fn = "select_mappings" /\ AnsweredWithMappings) =>
    /\ call.res.out = "ret" /\ call.res.val = "list"
    /\ \A k \in DOMAIN call.res.reqs : call.res.reqs[k].method = "GET"
    /\ call.method \in {"", "label"} => call.res.cnt = call.rs[1].body.cnt
    /\ call.method = "pattern" => call.res.cnt <= call.rs[1].body.cnt

UpdateFunctions ==
  {"update_virtual_host_by_id", "update_mapping",
   "update_backend_group_by_id"}

DeleteFunctions ==
  {"delete_virtual_host_by_id", "delete_mapping_by_id",
   "delete_backend_group_by_id"}

DenyRuleGetters ==
  {"get_mapping_deny_rule_group", "get_deny_rule_group",
   "dr.get_deny_rule_group", "dr.get_custom_deny_rule_group"}

\* C13: a deny rule getter returns None whenever the gateway answers 404,
\* whatever the body of that answer is, as get_mapping_by_id does.
C13_NotFoundReturnsNone ==
  (call.fn \in DenyRuleGetters \cup {"get_mapping_by_id"}
   /\ call.rs[1].st = 404) =>
    call.res.out = "ret" /\ call.res.val = "None"

\* C14: given the mappings that the name filter of the gateway found,
\* get_mapping_by_name returns None only if it found none and otherwise
\* returns a mapping; get_mapping_id returns the id of a mapping in the
\* same cases and None otherwise.
C14_NoneOnlyIfNotFound ==
  (call.fn \in {"get_mapping_by_name", "get_mapping_id"}
   /\ call.rs[1].st = 200 /\ call.rs[1].body.kind = "data") =>
    /\ call.res.out = "ret"
    /\ call.res.val = IF call.rs[1].body.cnt = 0 THEN "None"
                      ELSE IF call.fn = "get_mapping_id" THEN "id"
                      ELSE "dict"

ToggleGroupFunctions ==
  {"toggle_builtin_deny_rule_group_logonly",
   "toggle_custom_deny_rule_group_logonly"}

\* The query of the group was answered with the group, and every update of
\* one of its rules with 200 or 404.
GroupAndRulesAnswered ==
  /\ Len(call.rs) >= 2
  /\ call.rs[1].st = 200
  /\ call.rs[2].st \in {200, 404} /\ call.rs[2].body.kind = "data"
  /\ \A k \in 3..Len(call.rs) : call.rs[k].st \in {200, 404}

RECURSIVE Decimal(_)
Decimal(n) ==
  IF n < 10 THEN <<"0", "1", "2", "3", "4", "5", "6", "7", "8", "9">>[n + 1]
  ELSE Decimal(n \div 10) \o Decimal(n % 10)

\* C17: the requests of a GatewaySession go to host_name when its port
\* attribute is 443 and to host_name:port otherwise, so that the port
\* attribute is the port of the request URL, whether the port argument is
\* None, 443 or another port.
C17_HostMatchesPort ==
  call.fn = "GatewaySession" =>
    call.res.reqs[1].path =
      "https://"
        \o (IF call.gw_session.port = 443 THEN call.gw_session.host_name
            ELSE call.gw_session.host_name \o ":"
                   \o Decimal(call.gw_session.port))
        \o "/airlock/rest/path"

----------------------------------------------------------------------------
(* A further claim about add_custom_dr. *)

\* rel_endpoint for the group id.
RelEndpoint(id) ==
  "/configuration/custom-deny-rule-groups/" \o id
    \o "/relationships/custom-deny-rules"

GroupPosts ==
  {i \in DOMAIN log : log[i].method = "POST"
     /\ log[i].path = "/configuration/custom-deny-rule-groups"}

Connections ==
  {i \in DOMAIN log : log[i].method = "PATCH"
     /\ \E id \in {"{existing}", "{new}", "None", "unset"} :
          log[i].path = RelEndpoint(id)}

C16_WitnessCreated ==
  /\ script = "add_custom_dr" /\ status = "done"
  /\ ~sel.found /\ GroupPosts # {}
  /\ \E i \in Connections : log[i].path = RelEndpoint("{new}")

====
